---- MODULE Spec2Model ----
(***************************************************************************)
(* State-machine model of src/index.js: an Express application whose       *)
(* handlers read and write four MongoDB collections (User, Admin, Image,   *)
(* Order) and one S3 bucket.                                               *)
(*                                                                         *)
(* Every handler is an async function.  It runs without interruption from  *)
(* one `await` to the next, so each handler is modelled as a chain of      *)
(* atomic steps, one per await: the step that "starts" a handler runs the  *)
(* synchronous validation up to the first await, and every later step is   *)
(* the completion of the awaited database / S3 / bcrypt call followed by   *)
(* the synchronous code up to the next await (or to the response).  Steps  *)
(* of different requests interleave freely.                                *)
(*                                                                         *)
(* The database and S3 are assumed to answer every call (no injected       *)
(* faults), except s3.deleteObject, whose failure the code handles         *)
(* explicitly (lines 161-165) and which is therefore nondeterministic.     *)
(***************************************************************************)
EXTENDS Integers, Sequences, FiniteSets, TLC

\* ------------------------------------------------------------------ bounds
NumProcs == 2      \* request handlers that may be in flight at once
MaxTime == 1       \* Date.now() ranges over 0..MaxTime
MaxImages == 2     \* Image documents ever created
MaxUsers == 2      \* User documents ever created
MaxAdmins == 2     \* Admin documents ever created
MaxOrders == 1     \* Order documents ever created
MaxItems == 2      \* line items in one create-order request
MaxSalt == 1       \* salts bcrypt may draw
OrderUsers == 1    \* registrations in the order-placement scenario
OrderImages == 1   \* uploads in the order-placement scenario

\* ------------------------------------------------------- program constants
UploadLimitMB == 5
ProfileLimitMB == 1

VARIABLES
    users,    \* the User collection (userSchema, lines 29-36)
    admins,   \* the Admin collection (adminSchema, lines 39-46)
    images,   \* the Image collection (imageSchema, lines 49-55)
    orders,   \* the Order collection (orderSchema, lines 57-70)
    bucket,   \* the keys of the objects in the S3 bucket (lines 22-26)
    oidSeq,   \* per collection, how many _ids the store has generated
    now,      \* Date.now()
    req       \* per slot, the handler running there: its route, the await
              \* it is suspended at, the request and its locals, its response

vars == <<users, admins, images, orders, bucket, oidSeq, now, req>>

Procs == 1..NumProcs

\* ------------------------------------------------------------- ObjectIds
\* An ObjectId is an opaque value the store generates, unique over all
\* collections.  It is modelled by the collection that generated it and a
\* serial number.  "Unused" is a well-formed id no document has; "Malformed"
\* is a string that is not a 24-digit hex id.
Oid(coll, n) == [kind |-> coll, n |-> n]

UnusedId == Oid("Unused", 0)

MalformedId == Oid("Malformed", 0)

\* mongoose.Types.ObjectId.isValid
IsValidObjectId(id) == id.kind # "Malformed"

\* The ids a client can put in a request: the ones the store has handed out
\* so far in collection coll, a well-formed id of no document, a malformed one.
GeneratedIds(coll) == {Oid(coll, n) : n \in 1..oidSeq[coll]}

ClientIds(coll) == GeneratedIds(coll) \cup {UnusedId, MalformedId}

\* ------------------------------------------------------------- responses
Reply(status, text) == [status |-> status, text |-> text]

\* JavaScript truthiness of a request field: a field that is absent
\* (undefined) is falsy, a number is falsy when 0, a string when empty,
\* an array never.
Absent(body, f) == f \in body.omit

FalsyNumber(body, f) == Absent(body, f) \/ body[f] = 0

FalsyString(body, f) == Absent(body, f) \/ body[f] = ""

FalsyId(body, f) == Absent(body, f)

FalsyArray(body, f) == Absent(body, f)

Idle == [op |-> "idle", pc |-> "idle"]

IsIdle(p) == req[p].op = "idle"

At(p, op, pc) == req[p].op = op /\ req[p].pc = pc

Respond(p, status, text) ==
    req' = [req EXCEPT ![p] = [@ EXCEPT !.pc = "done", !.resp = Reply(status, text)]]

InFlight(op) == Cardinality({p \in Procs : req[p].op = op /\ req[p].pc # "done"})

NoReply == Reply(0, "")

Finished(p, op) == At(p, op, "done")

\* ------------------------------------------------------------ collections
ImageIds == {i.id : i \in images}

UserIds == {u.id : u \in users}

\* Model.findById: the document with that _id, or "none" (null)
FindById(coll, id) == {d \in coll : d.id = id}

\* Image.find({ _id: { $in: ids } }): every document whose _id is one of ids,
\* each document once however often its id is listed
FindIn(coll, ids) == {d \in coll : \E k \in 1..Len(ids) : ids[k] = d.id}

\* ------------------------------------------------------------- POST /upload
\* parseFloat of the price field: the request carries a string
ParseFloat(s) ==
    CASE s = "2" -> [nan |-> FALSE, v |-> 2]
      [] s = "0" -> [nan |-> FALSE, v |-> 0]
      [] s = "-1" -> [nan |-> FALSE, v |-> -1]
      [] OTHER -> [nan |-> TRUE, v |-> 0]

\* `${Date.now()}.${type}`
ObjectKey(ts, type) == [ts |-> ts, ext |-> type]

\* The public URL S3 returns for an object: its last path segment is the key
Location(key) == <<"https:", "", "bucket.s3.eu-north-1.amazonaws.com", key>>

\* url.split('/').pop()
KeyOfUrl(url) == url[Len(url)]

UploadStart(p, body) ==
    /\ IsIdle(p)
    /\ oidSeq["Image"] + InFlight("upload") < MaxImages
    /\ LET parsedPrice == ParseFloat(body.price)
           r == [op |-> "upload", pc |-> "s3upload", body |-> body,
                 key |-> ObjectKey(now, body.type), url |-> <<>>, imageId |-> UnusedId,
                 resp |-> NoReply]
           reject(status, text) ==
               [r EXCEPT !.pc = "done", !.resp = Reply(status, text)]
       IN req' = [req EXCEPT ![p] =
                    IF Absent(body, "image") \/ FalsyString(body, "name") \/ Absent(body, "price")
                    THEN reject(400, "Image, name, and price are required")
                    ELSE IF parsedPrice.nan \/ parsedPrice.v < 0
                    THEN reject(400, "Price must be a positive number")
                    ELSE IF body.sizeMB > UploadLimitMB
                    THEN reject(413, "Image size exceeds 5MB limit")
                    ELSE r]
    /\ UNCHANGED <<users, admins, images, orders, bucket, oidSeq, now>>

\* s3.upload(params).promise() resolves: the object is stored under Key,
\* replacing an object already stored under that key
UploadS3Done(p) ==
    /\ At(p, "upload", "s3upload")
    /\ bucket' = bucket \cup {req[p].key}
    /\ req' = [req EXCEPT ![p] = [@ EXCEPT !.pc = "save", !.url = Location(req[p].key)]]
    /\ UNCHANGED <<users, admins, images, orders, oidSeq, now>>

NewImage(id, url, body) ==
    [id |-> id, url |-> url, name |-> body.name, price |-> ParseFloat(body.price).v,
     description |-> ""]

\* newImage.save() resolves, then res.json({ url: Location })
UploadSaveDone(p) ==
    /\ At(p, "upload", "save")
    /\ LET id == Oid("Image", oidSeq["Image"] + 1)
       IN /\ images' = images \cup {NewImage(id, req[p].url, req[p].body)}
          /\ oidSeq' = [oidSeq EXCEPT !["Image"] = @ + 1]
          /\ req' = [req EXCEPT ![p] =
                       [@ EXCEPT !.pc = "done", !.imageId = id,
                                 !.resp = [status |-> 200, text |-> "", url |-> req[p].url]]]
    /\ UNCHANGED <<users, admins, orders, bucket, now>>

\* -------------------------------------------------------------- GET /images
\* Image.find(): every Image document
GetImages == images

\* --------------------------------------------------- DELETE /delete-image/:id
\* `existed` is history, not a local of the handler: whether an Image with
\* the id was stored when the request arrived.
DeleteStart(p, id) ==
    /\ IsIdle(p)
    /\ LET r == [op |-> "delete", pc |-> "find", id |-> id, key |-> ObjectKey(0, ""),
                 existed |-> id \in ImageIds, resp |-> NoReply]
       IN req' = [req EXCEPT ![p] =
                    IF ~IsValidObjectId(id)
                    THEN [r EXCEPT !.pc = "done", !.resp = Reply(400, "Invalid image ID")]
                    ELSE r]
    /\ UNCHANGED <<users, admins, images, orders, bucket, oidSeq, now>>

\* Image.findById(id) resolves
DeleteFindDone(p) ==
    /\ At(p, "delete", "find")
    /\ LET image == FindById(images, req[p].id)
       IN req' = [req EXCEPT ![p] =
                    IF image = {}
                    THEN [@ EXCEPT !.pc = "done", !.resp = Reply(404, "Image not found")]
                    ELSE [@ EXCEPT !.pc = "s3delete",
                                   !.key = KeyOfUrl((CHOOSE i \in image : TRUE).url)]]
    /\ UNCHANGED <<users, admins, images, orders, bucket, oidSeq, now>>

\* s3.deleteObject(params).promise() resolves (the object is gone) or rejects
\* (logged and swallowed)
DeleteS3Done(p) ==
    /\ At(p, "delete", "s3delete")
    /\ \/ bucket' = bucket \ {req[p].key}
       \/ bucket' = bucket
    /\ req' = [req EXCEPT ![p] = [@ EXCEPT !.pc = "dbdelete"]]
    /\ UNCHANGED <<users, admins, images, orders, oidSeq, now>>

\* A delete that removes nothing
FindByIdAndDeleteNothing(coll, id) == coll

\* Image.findByIdAndDelete(id): removes the document when there is one
FindByIdAndDelete(coll, id) == {d \in coll : d.id # id}

\* Image.findByIdAndDelete(id) resolves, then the 200 response
DeleteDbDone(p) ==
    /\ At(p, "delete", "dbdelete")
    /\ images' = FindByIdAndDelete(images, req[p].id)
    /\ Respond(p, 200, "Product deleted successfully")
    /\ UNCHANGED <<users, admins, orders, bucket, oidSeq, now>>

\* -------------------------------------------------------- POST /create-order
\* Lines 380-387: the first line item, in order, that fails a check decides
\* the response.  Quantities are integers here, so Number.isInteger holds.
ItemError(item) ==
    IF ~IsValidObjectId(item.productId) THEN "Invalid product ID"
    ELSE IF item.quantity < 1 THEN "Invalid quantity for product"
    ELSE ""

ProductsError(products) ==
    LET bad == {k \in 1..Len(products) : ItemError(products[k]) # ""}
    IN IF bad = {} THEN ""
       ELSE ItemError(products[CHOOSE k \in bad : \A j \in bad : k <= j])

\* products.map(p => p.productId)
ProductIds(products) == [k \in 1..Len(products) |-> products[k].productId]

\* A lookup that only fails when it resolves nothing
ProductsMissingWhenNoneFound(found, productIds) == found = {} /\ Len(productIds) > 0

\* Line 396: foundProducts.length !== productIds.length
ProductsMissing(found, productIds) == Cardinality(found) # Len(productIds)

\* Order.create(req.body): every field the request carries
CreateArgsWholeBody(body) ==
    [f \in (DOMAIN body \ {"omit"}) \ body.omit |-> body[f]]

\* The object handed to Order.create (lines 400-407): the six destructured
\* fields and nothing else of the request body
CreateArgs(body) ==
    [userId |-> body.userId, products |-> body.products, name |-> body.name,
     address |-> body.address, paymentType |-> body.paymentType, amount |-> body.amount]

\* orderSchema applied to that object: paymentStatus and createdAt take their
\* defaults unless the object sets them
OrderDocument(args, ts) ==
    [userId |-> args.userId, products |-> args.products, name |-> args.name,
     address |-> args.address, paymentType |-> args.paymentType, amount |-> args.amount,
     paymentStatus |-> IF "paymentStatus" \in DOMAIN args THEN args.paymentStatus
                       ELSE "pending",
     createdAt |-> ts]

Stored(doc, id) == [f \in DOMAIN doc \cup {"id"} |-> IF f = "id" THEN id ELSE doc[f]]

OrderStart(p, body) ==
    /\ IsIdle(p)
    /\ oidSeq["Order"] + InFlight("create-order") < MaxOrders
    /\ LET r == [op |-> "create-order", pc |-> "findUser", body |-> body,
                 doc |-> <<>>, resp |-> NoReply]
           reject(status, text) ==
               [r EXCEPT !.pc = "done", !.resp = Reply(status, text)]
       IN req' = [req EXCEPT ![p] =
                    IF \/ FalsyId(body, "userId") \/ FalsyArray(body, "products")
                       \/ FalsyString(body, "name") \/ FalsyString(body, "address")
                       \/ FalsyString(body, "paymentType") \/ FalsyNumber(body, "amount")
                    THEN reject(400, "All fields are required")
                    ELSE IF ~IsValidObjectId(body.userId)
                    THEN reject(400, "Invalid user ID")
                    ELSE IF ProductsError(body.products) # ""
                    THEN reject(400, ProductsError(body.products))
                    ELSE r]
    /\ UNCHANGED <<users, admins, images, orders, bucket, oidSeq, now>>

\* userModel.findById(userId) resolves
OrderUserDone(p) ==
    /\ At(p, "create-order", "findUser")
    /\ IF FindById(users, req[p].body.userId) = {}
       THEN Respond(p, 404, "User not found")
       ELSE req' = [req EXCEPT ![p] = [@ EXCEPT !.pc = "findProducts"]]
    /\ UNCHANGED <<users, admins, images, orders, bucket, oidSeq, now>>

\* Image.find({ _id: { $in: productIds } }) resolves; on success Order.create
\* builds the document (its createdAt default is taken now) and sends it
OrderProductsDone(p) ==
    /\ At(p, "create-order", "findProducts")
    /\ LET productIds == ProductIds(req[p].body.products)
           foundProducts == FindIn(images, productIds)
       IN IF ProductsMissing(foundProducts, productIds)
          THEN Respond(p, 404, "One or more products not found")
          ELSE req' = [req EXCEPT ![p] =
                         [@ EXCEPT !.pc = "create",
                                   !.doc = OrderDocument(CreateArgs(req[p].body), now)]]
    /\ UNCHANGED <<users, admins, images, orders, bucket, oidSeq, now>>

\* Order.create resolves: the document is in the collection; 201 { order }
OrderCreateDone(p) ==
    /\ At(p, "create-order", "create")
    /\ LET order == Stored(req[p].doc, Oid("Order", oidSeq["Order"] + 1))
       IN /\ orders' = orders \cup {order}
          /\ oidSeq' = [oidSeq EXCEPT !["Order"] = @ + 1]
          /\ req' = [req EXCEPT ![p] =
                       [@ EXCEPT !.pc = "done",
                                 !.resp = [status |-> 201, text |-> "", order |-> order]]]
    /\ UNCHANGED <<users, admins, images, bucket, now>>

\* ------------------------------------------------------------------ bcrypt
\* bcrypt.hash(password, saltRounds): a fresh salt and the digest of salt and
\* password; the plaintext is not kept
Salts == 1..MaxSalt

Hash(password, salt) == [salt |-> salt, digest |-> <<salt, password>>]

\* bcrypt.compare(password, hash): hash again with the stored salt
Compare(password, hash) == Hash(password, hash.salt) = hash

\* ------------------------------------- POST /create-users, /create-admins
\* The two handlers are the same code over userModel and adminModel.
Coll(c) == IF c = "User" THEN users ELSE admins

\* Model.findOne({ email }): exact, case-sensitive match
FindOneByEmail(coll, email) == {d \in coll : d.email = email}

NoPicture == [prefix |-> "", type |-> "", sizeMB |-> 0]

\* A data URI: its media prefix, its subtype, the size of its decoded payload
Picture(prefix, type, sizeMB) == [prefix |-> prefix, type |-> type, sizeMB |-> sizeMB]

\* Lines 188-203 / 299-314: status 0 when the picture is accepted (or none was sent)
PictureError(pic) ==
    IF pic = NoPicture THEN [status |-> 0, text |-> ""]
    ELSE IF pic.prefix # "data:image/"
    THEN Reply(400, "Invalid base64 image format")
    ELSE IF pic.type \notin {"jpeg", "jpg", "png"}
    THEN Reply(400, "Invalid image format. Use JPEG or PNG")
    ELSE IF pic.sizeMB > ProfileLimitMB
    THEN Reply(413, "Profile picture size exceeds 1MB limit")
    ELSE [status |-> 0, text |-> ""]

NewAccount(id, body, hashedPassword) ==
    [id |-> id, firstName |-> body.firstName, secondName |-> body.secondName,
     email |-> body.email, password |-> hashedPassword,
     profilePicture |-> body.profilePicture]

\* A schema without `unique: true`: every insert is accepted
UniqueIndexAbsent(coll, email) == FALSE

\* The unique index the schemas declare on email (lines 32, 42): an insert
\* whose email is already in the collection is refused (duplicate key)
UniqueIndexRefuses(coll, email) == \E d \in coll : d.email = email

RegisterStart(c, op, cap, p, body) ==
    /\ IsIdle(p)
    /\ oidSeq[c] + InFlight(op) < cap
    /\ LET r == [op |-> op, pc |-> "findOne", body |-> body,
                 hashed |-> Hash("", 0), resp |-> NoReply]
       IN req' = [req EXCEPT ![p] =
                    IF \/ FalsyString(body, "firstName") \/ FalsyString(body, "secondName")
                       \/ FalsyString(body, "email") \/ FalsyString(body, "password")
                    THEN [r EXCEPT !.pc = "done", !.resp = Reply(400, "All fields are required")]
                    ELSE r]
    /\ UNCHANGED <<users, admins, images, orders, bucket, oidSeq, now>>

\* Model.findOne({ email }) resolves; then the picture checks, then
\* bcrypt.hash is called
RegisterFindDone(c, op, p) ==
    /\ At(p, op, "findOne")
    /\ LET existing == FindOneByEmail(Coll(c), req[p].body.email)
           picErr == PictureError(req[p].body.profilePicture)
       IN IF existing # {}
          THEN Respond(p, 400, "Email already registered")
          ELSE IF picErr.status # 0
          THEN Respond(p, picErr.status, picErr.text)
          ELSE req' = [req EXCEPT ![p] = [@ EXCEPT !.pc = "hash"]]
    /\ UNCHANGED <<users, admins, images, orders, bucket, oidSeq, now>>

\* bcrypt.hash resolves; Model.create is called
RegisterHashDone(op, p) ==
    /\ At(p, op, "hash")
    /\ \E salt \in Salts :
         req' = [req EXCEPT ![p] =
                   [@ EXCEPT !.pc = "create", !.hashed = Hash(req[p].body.password, salt)]]
    /\ UNCHANGED <<users, admins, images, orders, bucket, oidSeq, now>>

\* Model.create resolves (201) or rejects with a duplicate-key error, which
\* the catch block turns into 500
RegisterCreateDone(c, op, p) ==
    /\ At(p, op, "create")
    /\ IF UniqueIndexRefuses(Coll(c), req[p].body.email)
       THEN /\ Respond(p, 500, "Registration failed")
            /\ UNCHANGED <<users, admins, oidSeq>>
       ELSE LET account == NewAccount(Oid(c, oidSeq[c] + 1), req[p].body, req[p].hashed)
            IN /\ users' = IF c = "User" THEN users \cup {account} ELSE users
               /\ admins' = IF c = "Admin" THEN admins \cup {account} ELSE admins
               /\ oidSeq' = [oidSeq EXCEPT ![c] = @ + 1]
               /\ Respond(p, 201, IF c = "User" THEN "User registered successfully"
                                  ELSE "Admin registered successfully")
    /\ UNCHANGED <<images, orders, bucket, now>>

CreateUsersStart(p, body) == RegisterStart("User", "create-users", MaxUsers, p, body)

CreateUsersFindDone(p) == RegisterFindDone("User", "create-users", p)

CreateUsersHashDone(p) == RegisterHashDone("create-users", p)

CreateUsersCreateDone(p) == RegisterCreateDone("User", "create-users", p)

CreateAdminsStart(p, body) == RegisterStart("Admin", "create-admins", MaxAdmins, p, body)

CreateAdminsFindDone(p) == RegisterFindDone("Admin", "create-admins", p)

CreateAdminsHashDone(p) == RegisterHashDone("create-admins", p)

CreateAdminsCreateDone(p) == RegisterCreateDone("Admin", "create-admins", p)

\* ------------------------------------------- POST /user-login, /admin-login
\* What a successful login returns of the account: never the password
\* (user-login also returns _id and secondName)
Summary(c, account) ==
    IF c = "User"
    THEN [id |-> account.id, firstName |-> account.firstName,
          secondName |-> account.secondName, email |-> account.email,
          profilePicture |-> account.profilePicture]
    ELSE [firstName |-> account.firstName, email |-> account.email,
          profilePicture |-> account.profilePicture]

\* A handler that tells the caller the email is unknown
UnknownEmailRevealed == Reply(404, "User not found")

\* Line 233 / 344: no account has that email
UnknownEmailReply == Reply(401, "Invalid email or password")

\* Line 238 / 349: the password does not match
WrongPasswordReply == Reply(401, "Invalid email or password")

LoginStart(op, p, body) ==
    /\ IsIdle(p)
    /\ LET r == [op |-> op, pc |-> "findOne", body |-> body, found |-> {}, resp |-> NoReply]
       IN req' = [req EXCEPT ![p] =
                    IF FalsyString(body, "email") \/ FalsyString(body, "password")
                    THEN [r EXCEPT !.pc = "done",
                                   !.resp = Reply(400, "Email and password are required")]
                    ELSE r]
    /\ UNCHANGED <<users, admins, images, orders, bucket, oidSeq, now>>

\* Model.findOne({ email }) resolves
LoginFindDone(c, op, p) ==
    /\ At(p, op, "findOne")
    /\ LET found == FindOneByEmail(Coll(c), req[p].body.email)
       IN IF found = {}
          THEN Respond(p, UnknownEmailReply.status, UnknownEmailReply.text)
          ELSE req' = [req EXCEPT ![p] = [@ EXCEPT !.pc = "compare", !.found = found]]
    /\ UNCHANGED <<users, admins, images, orders, bucket, oidSeq, now>>

\* bcrypt.compare resolves
LoginCompareDone(c, op, p) ==
    /\ At(p, op, "compare")
    /\ LET account == CHOOSE a \in req[p].found : TRUE
       IN IF ~Compare(req[p].body.password, account.password)
          THEN Respond(p, WrongPasswordReply.status, WrongPasswordReply.text)
          ELSE req' = [req EXCEPT ![p] =
                         [@ EXCEPT !.pc = "done",
                                   !.resp = [status |-> 200, text |-> "Login successful",
                                             account |-> Summary(c, account)]]]
    /\ UNCHANGED <<users, admins, images, orders, bucket, oidSeq, now>>

UserLoginStart(p, body) == LoginStart("user-login", p, body)

UserLoginFindDone(p) == LoginFindDone("User", "user-login", p)

UserLoginCompareDone(p) == LoginCompareDone("User", "user-login", p)

AdminLoginStart(p, body) == LoginStart("admin-login", p, body)

AdminLoginFindDone(p) == LoginFindDone("Admin", "admin-login", p)

AdminLoginCompareDone(p) == LoginCompareDone("Admin", "admin-login", p)

\* ------------------------------------------------------- clock and clients
\* Date.now() advances
Tick ==
    /\ now < MaxTime
    /\ now' = now + 1
    /\ UNCHANGED <<users, admins, images, orders, bucket, oidSeq, req>>

\* The response has been sent; the slot can serve another request
Finish(p) ==
    /\ req[p].pc = "done"
    /\ req' = [req EXCEPT ![p] = Idle]
    /\ UNCHANGED <<users, admins, images, orders, bucket, oidSeq, now>>

\* ---------------------------------------------------------- request inputs
Pictures ==
    {NoPicture, Picture("data:image/", "png", ProfileLimitMB),
     Picture("data:text/", "plain", ProfileLimitMB),
     Picture("data:image/", "gif", ProfileLimitMB),
     Picture("data:image/", "png", ProfileLimitMB + 1)}

Emails == {"a@b.com", "A@b.com"}

\* Request bodies: a well-formed request, and that request with one field
\* changed or left out
With(body, f, v) == [body EXCEPT ![f] = v]

Without(body, f) == [body EXCEPT !.omit = {f}]

BaseRegister ==
    [omit |-> {}, firstName |-> "A", secondName |-> "B", email |-> "a@b.com",
     password |-> "x", profilePicture |-> NoPicture]

RegisterBodies ==
    {With(BaseRegister, "email", e) : e \in Emails}
        \cup {With(BaseRegister, "profilePicture", pic) : pic \in Pictures}
        \cup {Without(BaseRegister, "password")}

BaseLogin == [omit |-> {}, email |-> "a@b.com", password |-> "x"]

LoginBodies ==
    {With(With(BaseLogin, "email", e), "password", pw) : e \in Emails, pw \in {"x", "y"}}
        \cup {Without(BaseLogin, "password")}

BaseUpload ==
    [omit |-> {}, type |-> "png", sizeMB |-> UploadLimitMB, name |-> "shoe", price |-> "2"]

UploadBodies ==
    {With(BaseUpload, "type", t) : t \in {"png", "jpeg"}}
        \cup {With(BaseUpload, "price", pr) : pr \in {"-1", "abc"}}
        \cup {With(BaseUpload, "sizeMB", UploadLimitMB + 1), Without(BaseUpload, "image")}

\* Line items: every id a client can name, with a valid quantity, and one
\* item with quantity 0
Items ==
    {[productId |-> i, quantity |-> 1] : i \in ClientIds("Image")}
        \cup {[productId |-> UnusedId, quantity |-> 0]}

ProductLists == UNION {[1..n -> Items] : n \in 0..MaxItems}

BaseOrder(userId, products) ==
    [omit |-> {"paymentStatus"}, userId |-> userId, products |-> products, name |-> "N",
     address |-> "Street 1", paymentType |-> "cod", amount |-> 1, paymentStatus |-> ""]

\* One-item lists of products that exist or existed
SingleLists == {<<[productId |-> i, quantity |-> 1]>> : i \in GeneratedIds("Image")}

OrderBodies ==
    {BaseOrder(u, ps) : u \in GeneratedIds("User"), ps \in ProductLists}
        \cup {BaseOrder(u, ps) : u \in {UnusedId, MalformedId}, ps \in SingleLists}
        \cup {With(BaseOrder(u, ps), "amount", a) :
                u \in GeneratedIds("User"), ps \in SingleLists, a \in {-1, 0}}
        \cup {[BaseOrder(u, ps) EXCEPT !.omit = {}, !.paymentStatus = "paid"] :
                u \in GeneratedIds("User"), ps \in SingleLists}
        \cup {Without(BaseOrder(u, <<>>), "address") : u \in GeneratedIds("User")}

\* ------------------------------------------------------------------- Init
Init ==
    /\ users = {}
    /\ admins = {}
    /\ images = {}
    /\ orders = {}
    /\ bucket = {}
    /\ oidSeq = [c \in {"User", "Admin", "Image", "Order"} |-> 0]
    /\ now = 0
    /\ req = [p \in Procs |-> Idle]

AccountsNext ==
    \E p \in Procs :
        \/ \E body \in RegisterBodies : CreateUsersStart(p, body)
        \/ CreateUsersFindDone(p)
        \/ CreateUsersHashDone(p)
        \/ CreateUsersCreateDone(p)
        \/ \E body \in RegisterBodies : CreateAdminsStart(p, body)
        \/ CreateAdminsFindDone(p)
        \/ CreateAdminsHashDone(p)
        \/ CreateAdminsCreateDone(p)
        \/ \E body \in LoginBodies : UserLoginStart(p, body)
        \/ UserLoginFindDone(p)
        \/ UserLoginCompareDone(p)
        \/ \E body \in LoginBodies : AdminLoginStart(p, body)
        \/ AdminLoginFindDone(p)
        \/ AdminLoginCompareDone(p)
        \/ Finish(p)

CatalogNext ==
    \/ Tick
    \/ \E p \in Procs :
        \/ \E body \in UploadBodies : UploadStart(p, body)
        \/ UploadS3Done(p)
        \/ UploadSaveDone(p)
        \/ \E id \in ClientIds("Image") : DeleteStart(p, id)
        \/ DeleteFindDone(p)
        \/ DeleteS3Done(p)
        \/ DeleteDbDone(p)
        \/ Finish(p)

OrdersNext ==
    \E p \in Procs :
        \/ (oidSeq["User"] + InFlight("create-users") < OrderUsers
              /\ CreateUsersStart(p, BaseRegister))
        \/ CreateUsersFindDone(p)
        \/ CreateUsersHashDone(p)
        \/ CreateUsersCreateDone(p)
        \/ (oidSeq["Image"] + InFlight("upload") < OrderImages
              /\ UploadStart(p, BaseUpload))
        \/ UploadS3Done(p)
        \/ UploadSaveDone(p)
        \/ \E id \in GeneratedIds("Image") : DeleteStart(p, id)
        \/ DeleteFindDone(p)
        \/ DeleteS3Done(p)
        \/ DeleteDbDone(p)
        \/ \E body \in OrderBodies : OrderStart(p, body)
        \/ OrderUserDone(p)
        \/ OrderProductsDone(p)
        \/ OrderCreateDone(p)
        \/ Finish(p)

OrderOnlyNext ==
    \E p \in Procs :
        \/ \E body \in OrderBodies : OrderStart(p, body)
        \/ OrderUserDone(p)
        \/ OrderProductsDone(p)
        \/ OrderCreateDone(p)

Next == AccountsNext \/ CatalogNext \/ OrderOnlyNext

Spec == Init /\ [][Next]_vars

SpecAccounts == Init /\ [][AccountsNext]_vars

SpecCatalog == Init /\ [][CatalogNext]_vars

SpecOrders == Init /\ [][OrdersNext]_vars

\* ======================================================== order placement
\* A step of request p: every action changes exactly one slot of req
Steps(p) == req'[p] # req[p]

Answered(p, status) == req'[p].pc = "done" /\ req'[p].resp.status = status

Range(seq) == {seq[k] : k \in 1..Len(seq)}

\* C1: when the user lookup of a create-order request finds no User, the
\* request is answered 404 "User not found"; when its product lookup misses
\* an Image for some line item, it is answered 404; and no step of a request
\* other than the one that answers 201 changes the Order collection.
C1_MissingReferenceCreatesNothing ==
    [][\A p \in Procs :
         /\ (At(p, "create-order", "findUser") /\ Steps(p)
                /\ req[p].body.userId \notin UserIds)
              => req'[p].pc = "done" /\ req'[p].resp = Reply(404, "User not found")
         /\ (At(p, "create-order", "findProducts") /\ Steps(p)
                /\ \E i \in Range(ProductIds(req[p].body.products)) : i \notin ImageIds)
              => Answered(p, 404)
         /\ (Steps(p) /\ ~Answered(p, 201)) => orders' = orders]_vars

C1_Witness ==
    \E p, q \in Procs :
        /\ Finished(p, "create-order") /\ req[p].resp = Reply(404, "User not found")
        /\ Finished(q, "create-order")
        /\ req[q].resp = Reply(404, "One or more products not found")
        /\ \E i \in Range(ProductIds(req[q].body.products)) : i \in ImageIds
        /\ orders = {}

\* C3: every stored Order has paymentStatus "pending", also when the request
\* carried another paymentStatus, and a stored Order is never changed or removed.
C3_PaymentStatusPending ==
    /\ [](\A o \in orders : o.paymentStatus = "pending")
    /\ [][orders \subseteq orders']_vars

C3_Witness ==
    \E p \in Procs :
        /\ Finished(p, "create-order") /\ req[p].resp.status = 201
        /\ ~Absent(req[p].body, "paymentStatus") /\ req[p].body.paymentStatus = "paid"
        /\ req[p].resp.order \in orders

\* C7: a create-order request whose products list is empty is answered 400,
\* and every stored Order has at least one line item.
C7_EmptyProductsRejected ==
    /\ \A p \in Procs :
         (Finished(p, "create-order") /\ req[p].body.products = <<>>)
            => req[p].resp.status = 400
    /\ \A o \in orders : Len(o.products) >= 1

\* C8: every stored Order has a non-negative amount.
C8_AmountNonNegative == \A o \in orders : o.amount >= 0

\* C9: when an Order is persisted, every productId of its line items is the
\* id of an Image in the store at that moment.
C9_OrderReferencesExistingImages ==
    [][\A o \in orders' \ orders :
         \A i \in Range(ProductIds(o.products)) : i \in {d.id : d \in images'}]_vars

\* C10: the product lookup answers 404 exactly when it resolved fewer Image
\* records than there are distinct productIds in the line items.
C10_NotFoundIffFewerThanDistinct ==
    [][\A p \in Procs :
         (At(p, "create-order", "findProducts") /\ Steps(p))
            => (Answered(p, 404)
                  <=> Cardinality(FindIn(images, ProductIds(req[p].body.products)))
                        < Cardinality(Range(ProductIds(req[p].body.products))))]_vars

\* ================================================================ catalog
\* C5: a delete-image request with a well-formed id is answered 404 exactly
\* when its lookup finds no Image with that id, and otherwise 200 with the
\* record removed; a request that arrives when the id has no Image (never
\* had one, or an earlier delete removed it) is answered 404; and an id
\* whose Image was removed never gets an Image again, so every later repeat
\* finds nothing.
C5_DeleteOnceThenNotFound ==
    /\ [](\A p \in Procs :
            (Finished(p, "delete") /\ IsValidObjectId(req[p].id))
               => /\ req[p].resp.status \in {200, 404}
                  /\ ~req[p].existed => req[p].resp.status = 404
                  /\ req[p].resp.status = 200 => req[p].id \notin ImageIds)
    /\ [][/\ \A p \in Procs :
               (At(p, "delete", "find") /\ Steps(p))
                  => (Answered(p, 404) <=> req[p].id \notin ImageIds)
          /\ \A id \in GeneratedIds("Image") \ ImageIds : id \notin {d.id : d \in images'}]_vars

C5_Witness ==
    \E p, q \in Procs :
        /\ Finished(p, "delete") /\ req[p].resp.status = 200 /\ req[p].existed
        /\ Finished(q, "delete") /\ req[q].id = req[p].id
        /\ ~req[q].existed /\ req[q].resp.status = 404

\* C6: the url a successful upload returned is the url of exactly one Image
\* record of GET /images, as long as the image it created is not deleted.
C6_UploadedUrlInExactlyOneImage ==
    \A p \in Procs :
        (Finished(p, "upload") /\ req[p].resp.status = 200 /\ req[p].imageId \in ImageIds)
           => Cardinality({i \in GetImages : i.url = req[p].resp.url}) = 1

\* =============================================================== accounts
EmailsOf(coll) == {d.email : d \in coll}

RegisterRejects(c, op, coll, collAfter) ==
    \A p \in Procs :
        (req[p].op = op /\ req[p].pc \in {"findOne", "create"} /\ Steps(p)
            /\ req[p].body.email \in EmailsOf(coll))
           => /\ req'[p].pc = "done" /\ req'[p].resp.status \in {400, 500}
              /\ collAfter = coll

\* C2: no two User records share an email and no two Admin records share an
\* email; a create-users (create-admins) request that reaches its lookup or
\* its insert when its email is already stored is rejected there and leaves
\* the collection as it was.
C2_EmailUnique ==
    /\ [](/\ \A a, b \in users : a.email = b.email => a = b
          /\ \A a, b \in admins : a.email = b.email => a = b)
    /\ [][/\ RegisterRejects("User", "create-users", users, users')
          /\ RegisterRejects("Admin", "create-admins", admins, admins')]_vars

\* Two requests with the same email raced past the lookup; the insert of the
\* second was refused
C2_Witness ==
    \E p, q \in Procs :
        /\ Finished(p, "create-users") /\ req[p].resp.status = 201
        /\ Finished(q, "create-users") /\ req[q].resp.status = 500
        /\ req[p].body.email = req[q].body.email
        /\ Cardinality(users) = 1

LoginOps == {"user-login", "admin-login"}

UnknownEmail(p) == Finished(p, req[p].op) /\ req[p].resp.status # 400 /\ req[p].found = {}

WrongPassword(p) ==
    /\ Finished(p, req[p].op) /\ req[p].found # {}
    /\ \A a \in req[p].found : ~Compare(req[p].body.password, a.password)

\* C4: a login whose email matched no record and a login (on the same
\* endpoint) whose email matched a record but whose password did not are
\* answered with the same status 401 and the same message, and no step of a
\* login changes a stored record.
C4_LoginFailuresIndistinguishable ==
    /\ [](\A p, q \in Procs :
            (req[p].op \in LoginOps /\ req[q].op = req[p].op
                /\ UnknownEmail(p) /\ WrongPassword(q))
               => req[p].resp = req[q].resp /\ req[p].resp.status = 401)
    /\ [][\A p \in Procs :
            (Steps(p) /\ (req[p].op \in LoginOps \/ req'[p].op \in LoginOps))
               => UNCHANGED <<users, admins, images, orders, bucket>>]_vars

C4_Witness ==
    \E p, q \in Procs :
        /\ req[p].op = "user-login" /\ req[q].op = "user-login"
        /\ UnknownEmail(p) /\ WrongPassword(q)
        /\ req[q].body.email \in EmailsOf(users)

====
